---- MODULE Spec2Model ----
(***************************************************************************)
(* State-machine model of the local inference-service supervisor of       *)
(* offlinedoctor2 (src-tauri/src/lib.rs, ollama_manager.rs).               *)
(*                                                                         *)
(* Tasks are concurrently running Tauri command invocations.  Each await  *)
(* point of a handler is one value of pc; the code between two await      *)
(* points is one action.                                                   *)
(***************************************************************************)
EXTENDS Integers, FiniteSets, Sequences, TLC

\* ---------------------------------------------------------------- bounds
NumTasks == 2
MaxProcs == 2

Tasks == 1..NumTasks
Pids  == 1..MaxProcs

\* ----------------------------------------------------------------- state
VARIABLES
    medical_ai,   \* AppState.medical_ai: Option<MedicalAI>, as a manager record
    slotOwner,    \* holder of the AsyncMutex around medical_ai (0 = free)
    mgr,          \* per task: the local `ollama_manager` of an initialize call
    proc,         \* per pid: state of a child process spawned by the app
    startable,    \* environment: the bundled/system binary can be spawned
    extUp,        \* environment: an external server answers on host:port
    installed,    \* environment: /api/tags lists an entry matching the model
    exited,       \* the host application has terminated
    pc,           \* per task: the await point the task is suspended at
    cmd,          \* per task: the command being executed
    res,          \* per task: value returned by the command
    work,         \* per task: side effects performed by the current call
    seRes,        \* per task: result of start_embedded in the current call
    seProbe,      \* per task: health_check result inside start_embedded
    extProbe,     \* per task: health_check result of the external probe
    sawInit,      \* per task: medical_ai.is_some() when the lock was taken
    spawns,       \* children spawned since start / the last stop (capped)
    initRets,     \* initialize calls returned since start / last stop (capped)
    failedOnce,   \* the latest completed initialize procedure returned Unavailable
    om,           \* an OllamaManager whose start_embedded/stop_embedded are called directly
    omOwner,      \* holder of the process mutex of om (0 = free)
    sawHandle,    \* per task: process_guard.is_some() when the mutex was taken
    stopsInRow,   \* stop_embedded calls completed since the last start (capped)
    fn,           \* the function of the latest direct call of a pure function
    arg,          \* its arguments
    out,          \* its result
    app           \* AppState.conversations and .sessions with their mutexes,
                  \* and the commands' requests (fields below)

progVars == <<medical_ai, slotOwner, mgr, proc, exited>>
envVars  == <<startable, extUp, installed>>
taskVars == <<pc, cmd, res, work, seRes, seProbe, extProbe, sawInit>>
histVars == <<spawns, initRets, failedOnce>>
mgrVars  == <<om, omOwner, sawHandle, stopsInRow>>
fnVars   == <<fn, arg, out>>
appVars  == <<app>>
auxVars  == <<mgrVars, fnVars, appVars>>

\* The fields of app.
\* AppState.conversations: the Vec of responses.
conversations == app.conversations

\* Holder of the Mutex around conversations (0 = free).
convOwner == app.convOwner

\* AppState.sessions: the keys of the HashMap.
sessions == app.sessions

\* Holder of the Mutex around sessions (0 = free).
sessOwner == app.sessOwner

\* Per task: the arguments of the command being executed.
req == app.req

\* Number of Uuid::new_v4() values generated so far.
uuids == app.uuids

\* Number of commands invoked so far.
calls == app.calls
vars     == <<progVars, envVars, taskVars, histVars, auxVars>>

\* No arguments: the task runs no command, or one that takes none.
NoReq == [session_id |-> "none"]

\* ------------------------------------------------------- manager records
\* Option<OllamaManager>: `some` is the Option tag, `process` the pid held in
\* Option<Child> (0 = None), `locked` whether the process mutex is held.
NoMgr == [some |-> FALSE, process |-> 0, locked |-> FALSE]

\* OllamaManager::new: no child, mutex free.
NewManager == [some |-> TRUE, process |-> 0, locked |-> FALSE]

Managers == [some : BOOLEAN, process : 0..MaxProcs, locked : BOOLEAN]

ProcStates == {"none", "starting", "serving", "exited"}

Alive(p) == proc[p] \in {"starting", "serving"}

LiveChildren == {p \in Pids : Alive(p)}

\* pid the OS hands to the next spawned child (0: process table full).
FreePid ==
    IF \E p \in Pids : proc[p] = "none"
    THEN CHOOSE p \in Pids : proc[p] = "none" /\ \A q \in Pids : proc[q] = "none" => p <= q
    ELSE 0

\* What GET /api/tags answers: success iff something listens on host:port.
ServerUp == extUp \/ \E p \in Pids : proc[p] = "serving"

\* OllamaManager::health_check: every transport error and every non-success
\* status becomes Ok(false).
HealthCheck == IF ServerUp THEN "up" ELSE "down"

Bump(n) == IF n < 2 THEN n + 1 ELSE 2

\* ----------------------------------------------------- pieces of handlers
\* lib.rs:264  `if medical_ai_guard.is_some()`
AlreadyInitialized_never(slot) == FALSE

AlreadyInitialized_handle(slot) == slot.some /\ slot.process # 0

AlreadyInitialized(slot) == slot.some

\* start_embedded up to its first await (the sleep): early return when a
\* handle is held, otherwise path/dir resolution and spawn, which may fail.
StartEmbeddedBegin_noGuard(m, canStart, pid) ==
    IF canStart /\ pid # 0
    THEN [mgr |-> [m EXCEPT !.process = pid, !.locked = TRUE], out |-> "spawned"]
    ELSE [mgr |-> m, out |-> "err"]

StartEmbeddedBegin(m, canStart, pid) ==
    IF m.process # 0
    THEN [mgr |-> m, out |-> "ok"]
    ELSE IF canStart /\ pid # 0
         THEN [mgr |-> [m EXCEPT !.process = pid, !.locked = TRUE], out |-> "spawned"]
         ELSE [mgr |-> m, out |-> "err"]

\* start_embedded after the sleep: `self.health_check().await?;` propagates
\* only an Err, and health_check never returns Err; the bool is discarded.
StartEmbeddedResult(probe) == "ok"

\* start_ai_service_internal, the match on start_embedded / health_check.
InitOutcome_swapped(se, ext) ==
    IF se = "ok" \/ ext = "down" THEN "ok" ELSE "unavailable"

InitOutcome(se, ext) ==
    IF se = "ok" \/ ext = "up" THEN "ok" ELSE "unavailable"

\* The external probe is sent only in the Err arm of the match.
ProbesExternal(se) == se = "err"

\* Drop for OllamaManager: try_lock, take the child, kill it and wait for it.
DropManager_forget(m, pr) == pr

DropManager_nowait(m, pr) ==
    IF m.some /\ ~m.locked /\ m.process # 0
    THEN [pr EXCEPT ![m.process] = "exited"]
    ELSE pr

DropManager(m, pr) ==
    IF m.some /\ ~m.locked /\ m.process # 0
    THEN [pr EXCEPT ![m.process] = "none"]
    ELSE pr

\* lib.rs:292-300: the match on ensure_model; the Err arm only prints a
\* warning and initialization continues.
InitAfterEnsure_strict(ensOk) == IF ensOk THEN "ok" ELSE "unavailable"

InitAfterEnsure(ensOk) == "ok"

\* Value left in the slot when initialize returns Err: the guard is never
\* assigned on that path, the local manager is dropped.
SlotAfterUnavailable_keep(slot, m) == m

SlotAfterUnavailable(slot, m) == slot

\* ------------------------------------------------------------------ Init
Init ==
    /\ medical_ai = NoMgr
    /\ slotOwner = 0
    /\ mgr = [t \in Tasks |-> NoMgr]
    /\ proc = [p \in Pids |-> "none"]
    /\ startable \in BOOLEAN
    /\ extUp \in BOOLEAN
    /\ installed \in BOOLEAN
    /\ exited = FALSE
    /\ pc = [t \in Tasks |-> "idle"]
    /\ cmd = [t \in Tasks |-> "none"]
    /\ res = [t \in Tasks |-> "none"]
    /\ work = [t \in Tasks |-> {}]
    /\ seRes = [t \in Tasks |-> "none"]
    /\ seProbe = [t \in Tasks |-> "none"]
    /\ extProbe = [t \in Tasks |-> "none"]
    /\ sawInit = [t \in Tasks |-> FALSE]
    /\ spawns = 0
    /\ initRets = 0
    /\ failedOnce = FALSE
    /\ om = NewManager
    /\ omOwner = 0
    /\ sawHandle = [t \in Tasks |-> FALSE]
    /\ stopsInRow = 0
    /\ fn = "none"
    /\ arg = <<>>
    /\ out = <<>>
    /\ app = [conversations |-> <<>>, convOwner |-> 0,
               sessions |-> {}, sessOwner |-> 0,
               req |-> [t \in Tasks |-> NoReq],
               uuids |-> 0, calls |-> 0]

\* ------------------------------------------------------- command dispatch
\* A Tauri command is invoked: the handler runs up to `medical_ai.lock().await`.
Invoke(t) ==
    /\ ~exited
    /\ pc[t] = "idle"
    /\ \E c \in {"init", "query", "health", "stop"} :
          cmd' = [cmd EXCEPT ![t] = c]
    /\ pc' = [pc EXCEPT ![t] = "lock"]
    /\ UNCHANGED <<progVars, envVars, histVars, res, work, seRes, seProbe, extProbe, sawInit>>
    /\ UNCHANGED auxVars

\* The caller consumes the returned value; the invocation is over.
Return(t) ==
    /\ ~exited
    /\ pc[t] = "ret"
    /\ pc' = [pc EXCEPT ![t] = "idle"]
    /\ cmd' = [cmd EXCEPT ![t] = "none"]
    /\ res' = [res EXCEPT ![t] = "none"]
    /\ work' = [work EXCEPT ![t] = {}]
    /\ seRes' = [seRes EXCEPT ![t] = "none"]
    /\ seProbe' = [seProbe EXCEPT ![t] = "none"]
    /\ extProbe' = [extProbe EXCEPT ![t] = "none"]
    /\ sawInit' = [sawInit EXCEPT ![t] = FALSE]
    /\ UNCHANGED <<progVars, envVars, histVars>>
    /\ UNCHANGED auxVars

\* ------------------------------------------- start_ai_service_internal
\* Tail of start_ai_service_internal (lib.rs:302-306): the manager is moved
\* into the slot (the value it replaces is dropped) and the guard released.
InitFinish(t) ==
    /\ medical_ai' = mgr[t]
    /\ proc' = DropManager(medical_ai, proc)
    /\ mgr' = [mgr EXCEPT ![t] = NoMgr]
    /\ slotOwner' = 0
    /\ res' = [res EXCEPT ![t] = "ok"]
    /\ pc' = [pc EXCEPT ![t] = "ret"]
    /\ initRets' = Bump(initRets)
    /\ failedOnce' = FALSE

\* The Err return of start_ai_service_internal (lib.rs:284-286): the local
\* manager goes out of scope, the guard is released.
InitUnavailable(t) ==
    /\ medical_ai' = SlotAfterUnavailable(medical_ai, mgr[t])
    /\ proc' = DropManager(mgr[t], proc)
    /\ mgr' = [mgr EXCEPT ![t] = NoMgr]
    /\ slotOwner' = 0
    /\ res' = [res EXCEPT ![t] = "unavailable"]
    /\ pc' = [pc EXCEPT ![t] = "ret"]
    /\ initRets' = Bump(initRets)
    /\ failedOnce' = TRUE

\* lib.rs:262-273 and ollama_manager.rs:63-97: the lock is obtained, the
\* initialized check made, a manager built and start_embedded run up to its
\* sleep (or to its error return).
InitAcquire(t) ==
    /\ ~exited
    /\ pc[t] = "lock" /\ cmd[t] = "init"
    /\ slotOwner = 0
    /\ sawInit' = [sawInit EXCEPT ![t] = medical_ai.some]
    /\ IF AlreadyInitialized(medical_ai)
       THEN /\ res' = [res EXCEPT ![t] = "already"]
            /\ pc' = [pc EXCEPT ![t] = "ret"]
            /\ initRets' = Bump(initRets)
            /\ UNCHANGED <<progVars, work, seRes, spawns, failedOnce>>
       ELSE LET se == StartEmbeddedBegin(NewManager, startable, FreePid) IN
            /\ slotOwner' = t
            /\ mgr' = [mgr EXCEPT ![t] = se.mgr]
            /\ UNCHANGED <<medical_ai, exited, res, initRets, failedOnce>>
            /\ CASE se.out = "spawned" ->
                      /\ proc' = [proc EXCEPT ![se.mgr.process] = "starting"]
                      /\ work' = [work EXCEPT ![t] = @ \cup {"spawn"}]
                      /\ spawns' = Bump(spawns)
                      /\ pc' = [pc EXCEPT ![t] = "se_sleep"]
                      /\ UNCHANGED seRes
                 [] se.out = "err" ->
                      /\ seRes' = [seRes EXCEPT ![t] = "err"]
                      /\ pc' = [pc EXCEPT ![t] =
                                   IF ProbesExternal("err") THEN "ext_probe" ELSE "list"]
                      /\ UNCHANGED <<proc, work, spawns>>
                 [] se.out = "ok" ->
                      /\ seRes' = [seRes EXCEPT ![t] = "ok"]
                      /\ pc' = [pc EXCEPT ![t] = "list"]
                      /\ UNCHANGED <<proc, work, spawns>>
    /\ UNCHANGED <<envVars, cmd, seProbe, extProbe>>
    /\ UNCHANGED auxVars

\* ollama_manager.rs:97  sleep(3 s) elapses; the liveness request is sent.
SeSleepDone(t) ==
    /\ ~exited
    /\ pc[t] = "se_sleep"
    /\ pc' = [pc EXCEPT ![t] = "se_probe"]
    /\ UNCHANGED <<progVars, envVars, histVars, cmd, res, work, seRes, seProbe, extProbe, sawInit>>
    /\ UNCHANGED auxVars

\* ollama_manager.rs:100-104: the liveness answer arrives, start_embedded
\* returns and releases the process mutex; lib.rs:273-289 dispatches on it.
SeProbeDone(t) ==
    /\ ~exited
    /\ pc[t] = "se_probe"
    /\ LET hc == HealthCheck
           r  == StartEmbeddedResult(hc)
       IN /\ seProbe' = [seProbe EXCEPT ![t] = hc]
          /\ seRes' = [seRes EXCEPT ![t] = r]
          /\ pc' = [pc EXCEPT ![t] = IF ProbesExternal(r) THEN "ext_probe" ELSE "list"]
    /\ mgr' = [mgr EXCEPT ![t].locked = FALSE]
    /\ work' = [work EXCEPT ![t] = @ \cup {"probe"}]
    /\ UNCHANGED <<medical_ai, slotOwner, proc, exited, envVars, histVars, cmd, res, extProbe, sawInit>>
    /\ UNCHANGED auxVars

\* lib.rs:280-287: answer of the external health_check.
ExtProbeDone(t) ==
    /\ ~exited
    /\ pc[t] = "ext_probe"
    /\ LET hc == HealthCheck IN
       /\ extProbe' = [extProbe EXCEPT ![t] = hc]
       /\ work' = [work EXCEPT ![t] = @ \cup {"probe"}]
       /\ IF InitOutcome(seRes[t], hc) = "ok"
          THEN /\ pc' = [pc EXCEPT ![t] = "list"]
               /\ UNCHANGED <<progVars, res, histVars>>
          ELSE /\ InitUnavailable(t)
               /\ UNCHANGED <<exited, spawns>>
    /\ UNCHANGED <<envVars, cmd, seRes, seProbe, sawInit>>
    /\ UNCHANGED auxVars

\* ensure_model, ollama_manager.rs:132-136: answer of list_models.  The
\* request fails when nothing answers; an answer may still be a non-success
\* status or an unparsable body.
ListDone(t) ==
    /\ ~exited
    /\ pc[t] = "list"
    /\ work' = [work EXCEPT ![t] = @ \cup {"list"}]
    /\ \E ok \in {b \in BOOLEAN : b => ServerUp} :
          IF ok /\ ~installed
          THEN /\ pc' = [pc EXCEPT ![t] = "pull"]
               /\ UNCHANGED <<progVars, res, histVars>>
          ELSE /\ IF InitAfterEnsure(ok) = "ok" THEN InitFinish(t) ELSE InitUnavailable(t)
               /\ UNCHANGED <<exited, spawns>>
    /\ UNCHANGED <<envVars, cmd, seRes, seProbe, extProbe, sawInit>>
    /\ UNCHANGED auxVars

\* ensure_model, ollama_manager.rs:140: answer of pull_model; either way
\* start_ai_service_internal continues (lib.rs:292-300).
PullDone(t) ==
    /\ ~exited
    /\ pc[t] = "pull"
    /\ work' = [work EXCEPT ![t] = @ \cup {"pull"}]
    /\ \E ok \in {b \in BOOLEAN : b => ServerUp} :
          /\ installed' = (installed \/ ok)
          /\ IF InitAfterEnsure(ok) = "ok" THEN InitFinish(t) ELSE InitUnavailable(t)
    /\ UNCHANGED <<exited, startable, extUp, spawns, cmd, seRes, seProbe, extProbe, sawInit>>
    /\ UNCHANGED auxVars

\* ------------------------------------------------- submit_medical_query
\* lib.rs:121-132 and 187-215: with no service the fallback is returned at
\* once; otherwise the chat request is sent while the guard is held.
QueryAcquire(t) ==
    /\ ~exited
    /\ pc[t] = "lock" /\ cmd[t] = "query"
    /\ slotOwner = 0
    /\ sawInit' = [sawInit EXCEPT ![t] = medical_ai.some]
    /\ IF medical_ai.some
       THEN /\ slotOwner' = t
            /\ pc' = [pc EXCEPT ![t] = "chat"]
            /\ UNCHANGED res
       ELSE /\ res' = [res EXCEPT ![t] = "fallback_uninit"]
            /\ pc' = [pc EXCEPT ![t] = "ret"]
            /\ UNCHANGED slotOwner
    /\ UNCHANGED <<medical_ai, mgr, proc, exited, envVars, histVars, cmd, work, seRes, seProbe, extProbe>>
    /\ UNCHANGED auxVars

\* lib.rs:132-186: the chat call returns (ollama_manager.rs:185-202); the
\* guard is dropped and the response returned.
ChatDone(t) ==
    /\ ~exited
    /\ pc[t] = "chat"
    /\ work' = [work EXCEPT ![t] = @ \cup {"chat"}]
    /\ \E ok \in {b \in BOOLEAN : b => ServerUp} :
          res' = [res EXCEPT ![t] = IF ok THEN "answered" ELSE "fallback_error"]
    /\ slotOwner' = 0
    /\ pc' = [pc EXCEPT ![t] = "ret"]
    /\ UNCHANGED <<medical_ai, mgr, proc, exited, envVars, histVars, cmd, seRes, seProbe, extProbe, sawInit>>
    /\ UNCHANGED auxVars

\* ---------------------------------------------------- get_system_health
\* lib.rs:221-230
HealthAcquire(t) ==
    /\ ~exited
    /\ pc[t] = "lock" /\ cmd[t] = "health"
    /\ slotOwner = 0
    /\ sawInit' = [sawInit EXCEPT ![t] = medical_ai.some]
    /\ IF medical_ai.some
       THEN /\ slotOwner' = t
            /\ pc' = [pc EXCEPT ![t] = "health"]
            /\ UNCHANGED res
       ELSE /\ res' = [res EXCEPT ![t] = "not_initialized"]
            /\ pc' = [pc EXCEPT ![t] = "ret"]
            /\ UNCHANGED slotOwner
    /\ UNCHANGED <<medical_ai, mgr, proc, exited, envVars, histVars, cmd, work, seRes, seProbe, extProbe>>
    /\ UNCHANGED auxVars

\* lib.rs:223-238
HealthDone(t) ==
    /\ ~exited
    /\ pc[t] = "health"
    /\ work' = [work EXCEPT ![t] = @ \cup {"probe"}]
    /\ res' = [res EXCEPT ![t] = IF HealthCheck = "up" THEN "healthy" ELSE "disconnected"]
    /\ slotOwner' = 0
    /\ pc' = [pc EXCEPT ![t] = "ret"]
    /\ UNCHANGED <<medical_ai, mgr, proc, exited, envVars, histVars, cmd, seRes, seProbe, extProbe, sawInit>>
    /\ UNCHANGED auxVars

\* ------------------------------------------------------ stop_ai_service
\* lib.rs:311  `state.medical_ai.lock().await` returns once no other task
\* holds the guard.
StopMayAcquire_noLock(owner) == TRUE

StopMayAcquire(owner) == owner = 0

\* lib.rs:310-314: `*medical_ai_guard = None` drops the MedicalAI and with
\* it the OllamaManager.
StopAiService(t) ==
    /\ ~exited
    /\ pc[t] = "lock" /\ cmd[t] = "stop"
    /\ StopMayAcquire(slotOwner)
    /\ sawInit' = [sawInit EXCEPT ![t] = medical_ai.some]
    /\ proc' = DropManager(medical_ai, proc)
    /\ medical_ai' = NoMgr
    /\ res' = [res EXCEPT ![t] = "stopped"]
    /\ pc' = [pc EXCEPT ![t] = "ret"]
    /\ spawns' = 0
    /\ initRets' = 0
    /\ UNCHANGED <<slotOwner, mgr, exited, envVars, failedOnce, cmd, work, seRes, seProbe, extProbe>>
    /\ UNCHANGED auxVars

\* ----------------------------------------------------- application exit
\* The tasks and the memory of the application cease to exist with it.
TasksGone ==
    /\ medical_ai' = NoMgr
    /\ mgr' = [t \in Tasks |-> NoMgr]
    /\ slotOwner' = 0
    /\ pc' = [t \in Tasks |-> "idle"]
    /\ cmd' = [t \in Tasks |-> "none"]
    /\ res' = [t \in Tasks |-> "none"]
    /\ work' = [t \in Tasks |-> {}]
    /\ seRes' = [t \in Tasks |-> "none"]
    /\ seProbe' = [t \in Tasks |-> "none"]
    /\ extProbe' = [t \in Tasks |-> "none"]
    /\ sawInit' = [t \in Tasks |-> FALSE]

\* run() (lib.rs:525-552) installs no exit handler.  When the application
\* state and the pending futures are destroyed on the way out, every
\* OllamaManager is dropped (guards first).
ExitDrop ==
    /\ ~exited
    /\ exited' = TRUE
    /\ LET unlocked(m) == [m EXCEPT !.locked = FALSE]
           step[n \in 0..NumTasks] ==
               IF n = 0 THEN DropManager(unlocked(medical_ai), proc)
               ELSE DropManager(unlocked(mgr[n]), step[n - 1])
       IN proc' = step[NumTasks]
    /\ TasksGone
    /\ UNCHANGED <<envVars, histVars>>
    /\ UNCHANGED auxVars

\* The process ends without unwinding (signal, abort, process::exit): no
\* destructor runs, the children are left as they are.
ExitAbrupt ==
    /\ ~exited
    /\ exited' = TRUE
    /\ TasksGone
    /\ UNCHANGED <<proc, envVars, histVars>>
    /\ UNCHANGED auxVars

\* ---------------------------------------------------------- environment
\* A spawned server finishes starting and listens on host:port.
ChildReady(p) ==
    /\ ~exited
    /\ proc[p] = "starting"
    /\ proc' = [proc EXCEPT ![p] = "serving"]
    /\ UNCHANGED <<medical_ai, slotOwner, mgr, exited, envVars, taskVars, histVars>>
    /\ UNCHANGED auxVars

\* A spawned server dies on its own; it stays unreaped.
ChildExit(p) ==
    /\ ~exited
    /\ Alive(p)
    /\ proc' = [proc EXCEPT ![p] = "exited"]
    /\ UNCHANGED <<medical_ai, slotOwner, mgr, exited, envVars, taskVars, histVars>>
    /\ UNCHANGED auxVars

\* The binary appears/disappears; an external server is started/stopped.
EnvChange ==
    /\ ~exited
    /\ \E s, e \in BOOLEAN :
          /\ <<s, e>> # <<startable, extUp>>
          /\ startable' = s
          /\ extUp' = e
    /\ UNCHANGED <<progVars, installed, taskVars, histVars>>
    /\ UNCHANGED auxVars

Next ==
    \/ \E t \in Tasks : Invoke(t)
    \/ \E t \in Tasks : Return(t)
    \/ \E t \in Tasks : InitAcquire(t)
    \/ \E t \in Tasks : SeSleepDone(t)
    \/ \E t \in Tasks : SeProbeDone(t)
    \/ \E t \in Tasks : ExtProbeDone(t)
    \/ \E t \in Tasks : ListDone(t)
    \/ \E t \in Tasks : PullDone(t)
    \/ \E t \in Tasks : QueryAcquire(t)
    \/ \E t \in Tasks : ChatDone(t)
    \/ \E t \in Tasks : HealthAcquire(t)
    \/ \E t \in Tasks : HealthDone(t)
    \/ \E t \in Tasks : StopAiService(t)
    \/ \E p \in Pids : ChildReady(p)
    \/ \E p \in Pids : ChildExit(p)
    \/ EnvChange
    \/ ExitDrop
    \/ ExitAbrupt

Spec == Init /\ [][Next]_vars

\* ----------------------------------------------------------- type check
TypeOK ==
    /\ medical_ai \in Managers
    /\ slotOwner \in 0..NumTasks
    /\ mgr \in [Tasks -> Managers]
    /\ proc \in [Pids -> ProcStates]
    /\ startable \in BOOLEAN /\ extUp \in BOOLEAN /\ installed \in BOOLEAN
    /\ exited \in BOOLEAN
    /\ pc \in [Tasks -> {"idle", "lock", "se_sleep", "se_probe", "ext_probe",
                         "list", "pull", "chat", "health", "ret"}]
    /\ cmd \in [Tasks -> {"none", "init", "query", "health", "stop"}]
    /\ work \in [Tasks -> SUBSET {"spawn", "probe", "list", "pull", "chat"}]
    /\ seRes \in [Tasks -> {"none", "ok", "err"}]
    /\ seProbe \in [Tasks -> {"none", "up", "down"}]
    /\ extProbe \in [Tasks -> {"none", "up", "down"}]
    /\ sawInit \in [Tasks -> BOOLEAN]
    /\ spawns \in 0..2 /\ initRets \in 0..2
    /\ failedOnce \in BOOLEAN

\* ----------------------------------- OllamaManager called directly
\* stop_embedded (ollama_manager.rs:107-117) with the mutex held: the child
\* is taken out of the Option, killed and waited for; kill and wait can fail.
StopEmbedded_keepOnError(m, pr, killOk, waitOk) ==
    IF m.process = 0
    THEN [mgr |-> m, proc |-> pr, out |-> "ok"]
    ELSE IF ~killOk
         THEN [mgr |-> m, proc |-> pr, out |-> "err"]
         ELSE IF ~waitOk
              THEN [mgr |-> m, proc |-> [pr EXCEPT ![m.process] = "exited"], out |-> "err"]
              ELSE [mgr |-> [m EXCEPT !.process = 0],
                    proc |-> [pr EXCEPT ![m.process] = "none"], out |-> "ok"]

StopEmbedded_errWhenIdle(m, pr, killOk, waitOk) ==
    IF m.process = 0
    THEN [mgr |-> m, proc |-> pr, out |-> "err"]
    ELSE IF ~killOk
         THEN [mgr |-> [m EXCEPT !.process = 0], proc |-> pr, out |-> "err"]
         ELSE IF ~waitOk
              THEN [mgr |-> [m EXCEPT !.process = 0],
                    proc |-> [pr EXCEPT ![m.process] = "exited"], out |-> "err"]
              ELSE [mgr |-> [m EXCEPT !.process = 0],
                    proc |-> [pr EXCEPT ![m.process] = "none"], out |-> "ok"]

StopEmbedded(m, pr, killOk, waitOk) ==
    IF m.process = 0
    THEN [mgr |-> m, proc |-> pr, out |-> "ok"]
    ELSE IF ~killOk
         THEN [mgr |-> [m EXCEPT !.process = 0], proc |-> pr, out |-> "err"]
         ELSE IF ~waitOk
              THEN [mgr |-> [m EXCEPT !.process = 0],
                    proc |-> [pr EXCEPT ![m.process] = "exited"], out |-> "err"]
              ELSE [mgr |-> [m EXCEPT !.process = 0],
                    proc |-> [pr EXCEPT ![m.process] = "none"], out |-> "ok"]

\* A caller invokes start_embedded or stop_embedded of om; the call runs up
\* to `self.process.lock().await`.
MgrInvoke(t) ==
    /\ ~exited
    /\ pc[t] = "idle"
    /\ \E c \in {"start", "stop"} : cmd' = [cmd EXCEPT ![t] = c]
    /\ pc' = [pc EXCEPT ![t] = "plock"]
    /\ UNCHANGED <<progVars, envVars, histVars, res, work, seRes, seProbe, extProbe, sawInit>>
    /\ UNCHANGED auxVars

\* The caller consumes the result of the call.
MgrReturn(t) ==
    /\ ~exited
    /\ pc[t] = "ret"
    /\ pc' = [pc EXCEPT ![t] = "idle"]
    /\ cmd' = [cmd EXCEPT ![t] = "none"]
    /\ res' = [res EXCEPT ![t] = "none"]
    /\ work' = [work EXCEPT ![t] = {}]
    /\ seRes' = [seRes EXCEPT ![t] = "none"]
    /\ seProbe' = [seProbe EXCEPT ![t] = "none"]
    /\ sawHandle' = [sawHandle EXCEPT ![t] = FALSE]
    /\ UNCHANGED <<progVars, envVars, histVars, extProbe, sawInit>>
    /\ UNCHANGED <<om, omOwner, stopsInRow, fnVars, appVars>>

\* start_embedded, ollama_manager.rs:63-97: the mutex is obtained; with a
\* handle held the call returns Ok at once; otherwise paths are resolved, the
\* data directory created and the child spawned, any of which can fail.
MgrStartAcquire(t) ==
    /\ ~exited
    /\ pc[t] = "plock" /\ cmd[t] = "start"
    /\ omOwner = 0
    /\ sawHandle' = [sawHandle EXCEPT ![t] = om.process # 0]
    /\ stopsInRow' = 0
    /\ LET se == StartEmbeddedBegin(om, startable, FreePid) IN
       /\ om' = se.mgr
       /\ CASE se.out = "spawned" ->
                 /\ proc' = [proc EXCEPT ![se.mgr.process] = "starting"]
                 /\ work' = [work EXCEPT ![t] = {"mkdir", "spawn"}]
                 /\ omOwner' = t
                 /\ pc' = [pc EXCEPT ![t] = "se_sleep"]
                 /\ UNCHANGED <<res, seRes>>
            [] se.out = "err" ->
                 /\ \E made \in BOOLEAN :
                       work' = [work EXCEPT ![t] = IF made THEN {"mkdir"} ELSE {}]
                 /\ seRes' = [seRes EXCEPT ![t] = "err"]
                 /\ res' = [res EXCEPT ![t] = "err"]
                 /\ pc' = [pc EXCEPT ![t] = "ret"]
                 /\ UNCHANGED <<proc, omOwner>>
            [] se.out = "ok" ->
                 /\ seRes' = [seRes EXCEPT ![t] = "ok"]
                 /\ res' = [res EXCEPT ![t] = "ok"]
                 /\ pc' = [pc EXCEPT ![t] = "ret"]
                 /\ UNCHANGED <<proc, omOwner, work>>
    /\ UNCHANGED <<medical_ai, slotOwner, mgr, exited, envVars, histVars, cmd, seProbe,
                   extProbe, sawInit, fnVars, appVars>>

\* start_embedded, ollama_manager.rs:99-104: the liveness answer arrives and
\* the call returns, releasing the mutex.
MgrProbeDone(t) ==
    /\ ~exited
    /\ pc[t] = "se_probe" /\ cmd[t] = "start"
    /\ LET hc == HealthCheck
           r  == StartEmbeddedResult(hc)
       IN /\ seProbe' = [seProbe EXCEPT ![t] = hc]
          /\ seRes' = [seRes EXCEPT ![t] = r]
          /\ res' = [res EXCEPT ![t] = r]
    /\ om' = [om EXCEPT !.locked = FALSE]
    /\ omOwner' = 0
    /\ work' = [work EXCEPT ![t] = @ \cup {"probe"}]
    /\ pc' = [pc EXCEPT ![t] = "ret"]
    /\ UNCHANGED <<progVars, envVars, histVars, cmd, extProbe, sawInit, sawHandle,
                   stopsInRow, fnVars, appVars>>

\* stop_embedded, ollama_manager.rs:107-117: kill and wait are blocking
\* calls, the whole body runs once the mutex is obtained.
MgrStopEmbedded(t) ==
    /\ ~exited
    /\ pc[t] = "plock" /\ cmd[t] = "stop"
    /\ omOwner = 0
    /\ sawHandle' = [sawHandle EXCEPT ![t] = om.process # 0]
    /\ stopsInRow' = Bump(stopsInRow)
    /\ \E killOk, waitOk \in BOOLEAN :
          LET st == StopEmbedded(om, proc, killOk, waitOk) IN
          /\ om' = st.mgr
          /\ proc' = st.proc
          /\ res' = [res EXCEPT ![t] = st.out]
    /\ pc' = [pc EXCEPT ![t] = "ret"]
    /\ UNCHANGED <<medical_ai, slotOwner, mgr, exited, envVars, histVars, cmd, work, seRes,
                   seProbe, extProbe, sawInit, omOwner, fnVars, appVars>>

NextMgr ==
    \/ \E t \in Tasks : MgrInvoke(t)
    \/ \E t \in Tasks : MgrReturn(t)
    \/ \E t \in Tasks : MgrStartAcquire(t)
    \/ \E t \in Tasks : SeSleepDone(t)
    \/ \E t \in Tasks : MgrProbeDone(t)
    \/ \E t \in Tasks : MgrStopEmbedded(t)
    \/ \E p \in Pids : ChildReady(p)
    \/ \E p \in Pids : ChildExit(p)
    \/ EnvChange

SpecMgr == Init /\ [][NextMgr]_vars

\* -------------------------------------------------- text and functions
\* A string is a sequence of tokens (words, spaces, newlines, markers); a
\* token stands for the characters it is written with.
MaxModels   == 2
MaxQueryLen == 3
MaxChunks   == 4

\* char::to_lowercase, token by token.
LowerToken(c) ==
    CASE c = "PAIN"  -> "pain"
      [] c = "STROKE" -> "stroke"
      [] OTHER -> c

\* str::to_lowercase
RECURSIVE ToLowercase(_)
ToLowercase(s) ==
    IF s = <<>> THEN <<>> ELSE <<LowerToken(Head(s))>> \o ToLowercase(Tail(s))

\* str::starts_with
StartsWith(s, p) == Len(p) <= Len(s) /\ SubSeq(s, 1, Len(p)) = p

\* str::contains: the needle is tried at every position from the left.
RECURSIVE Contains(_, _)
Contains_exact(s, n) == s = n

Contains(s, n) ==
    IF StartsWith(s, n) THEN TRUE
    ELSE IF s = <<>> THEN FALSE
    ELSE Contains(Tail(s), n)

\* All sequences over S of length at most n.
SeqsUpTo(S, n) == UNION {[1..k -> S] : k \in 0..n}

\* reqwest StatusCode::is_success
IsSuccess_only200(status) == status = 200

IsSuccess(status) == 200 <= status /\ status < 300

\* HTTP statuses a server is made to answer with.
Statuses == {100, 200, 204, 299, 300, 404, 500}

\* OllamaManager::health_check on the outcome of the GET: `sent` tells
\* whether send() returned Ok.  `err` is whether the function returns Err.
HealthCheckOf(resp) ==
    IF resp.sent
    THEN [err |-> FALSE, value |-> IsSuccess(resp.status)]
    ELSE [err |-> FALSE, value |-> FALSE]

\* Bodies of a /api/tags answer.  json: the body is valid JSON; top: the
\* value is an object; models: the "models" member is absent, not an array
\* or an array; entries: its elements, each with a string name (str), a
\* non-string name (num) or none.
EntryNames == {<<"x">>, <<"x", ":latest">>}

Entries == {[k |-> "noName", name |-> <<>>], [k |-> "num", name |-> <<>>]}
               \cup {[k |-> "str", name |-> n] : n \in EntryNames}

Bodies ==
    {[json |-> FALSE, top |-> "none", models |-> "absent", entries |-> <<>>]}
    \cup {[json |-> TRUE, top |-> "notObject", models |-> "absent", entries |-> <<>>]}
    \cup {[json |-> TRUE, top |-> "object", models |-> m, entries |-> <<>>] :
             m \in {"absent", "notArray"}}
    \cup {[json |-> TRUE, top |-> "object", models |-> "array", entries |-> e] :
             e \in SeqsUpTo(Entries, MaxModels)}

\* ollama_manager.rs:156-161  filter_map over the entries: those whose
\* "name" is a string, in order.
RECURSIVE FilterNames(_)
FilterNames(es) ==
    IF es = <<>> THEN <<>>
    ELSE IF Head(es).k = "str"
         THEN <<Head(es).name>> \o FilterNames(Tail(es))
         ELSE FilterNames(Tail(es))

\* OllamaManager::list_models on the outcome of the GET.
ListModels_ignoreStatus(resp) ==
    IF ~resp.sent THEN [ok |-> FALSE, err |-> "send", models |-> <<>>]
    ELSE IF ~resp.body.json THEN [ok |-> FALSE, err |-> "json", models |-> <<>>]
    ELSE [ok |-> TRUE, err |-> "none",
          models |-> IF resp.body.top = "object" /\ resp.body.models = "array"
                     THEN FilterNames(resp.body.entries) ELSE <<>>]

ListModels(resp) ==
    IF ~resp.sent THEN [ok |-> FALSE, err |-> "send", models |-> <<>>]
    ELSE IF ~IsSuccess(resp.status) THEN [ok |-> FALSE, err |-> "status", models |-> <<>>]
    ELSE IF ~resp.body.json THEN [ok |-> FALSE, err |-> "json", models |-> <<>>]
    ELSE [ok |-> TRUE, err |-> "none",
          models |-> IF resp.body.top = "object" /\ resp.body.models = "array"
                     THEN FilterNames(resp.body.entries) ELSE <<>>]

\* ollama_manager.rs:134  models.iter().any(|m| m.contains(model))
RECURSIVE AnyContains(_, _)
AnyContains(models, model) ==
    IF models = <<>> THEN FALSE
    ELSE IF Contains(Head(models), model) THEN TRUE
    ELSE AnyContains(Tail(models), model)

\* OllamaManager::ensure_model given the result of list_models and, when it
\* is called, of pull_model.
EnsureModel(listRes, model, pullOk) ==
    IF ~listRes.ok THEN [ok |-> FALSE, pulled |-> FALSE]
    ELSE IF AnyContains(listRes.models, model) THEN [ok |-> TRUE, pulled |-> FALSE]
    ELSE [ok |-> pullOk, pulled |-> TRUE]

\* Names of models: tokens of the installed entries and of the required name.
ModelTokens == {"x", ":latest"}

ModelNames == SeqsUpTo(ModelTokens, 2)

RequiredNames == {<<"x">>, <<"x", ":latest">>}

CallEnsureModel ==
    /\ fn = "none"
    /\ \E lok, pok \in BOOLEAN, ms \in SeqsUpTo(ModelNames, MaxModels), n \in RequiredNames :
          LET lr == [ok |-> lok, models |-> IF lok THEN ms ELSE <<>>] IN
          /\ arg' = [list |-> lr, model |-> n, pullOk |-> pok]
          /\ out' = EnsureModel(lr, n, pok)
    /\ fn' = "ensure_model"
    /\ UNCHANGED <<progVars, envVars, taskVars, histVars, mgrVars, appVars>>

CallHealthCheck ==
    /\ fn = "none"
    /\ \E snt \in BOOLEAN, st \in Statuses :
          LET resp == [sent |-> snt, status |-> st] IN
          /\ arg' = resp
          /\ out' = HealthCheckOf(resp)
    /\ fn' = "health_check"
    /\ UNCHANGED <<progVars, envVars, taskVars, histVars, mgrVars, appVars>>

CallListModels ==
    /\ fn = "none"
    /\ \E snt \in BOOLEAN, st \in Statuses, b \in Bodies :
          LET resp == [sent |-> snt, status |-> st, body |-> b] IN
          /\ arg' = resp
          /\ out' = ListModels(resp)
    /\ fn' = "list_models"
    /\ UNCHANGED <<progVars, envVars, taskVars, histVars, mgrVars, appVars>>

\* ----------------------------------------------------------- medical_ai
Space == " "
Newline == "\n"
Dash == <<"-", " ">>
\* "*" is the token of the bullet character U+2022.
Dot == <<"*", " ">>

\* medical_ai.rs:97-109
emergency_keywords ==
    << <<"chest", " ", "pain">>,
       <<"difficulty", " ", "breathing">>,
       <<"severe", " ", "pain">>,
       <<"unconscious">>,
       <<"bleeding", " ", "heavily">>,
       <<"severe", " ", "allergic", " ", "reaction">>,
       <<"heart", " ", "attack">>,
       <<"stroke">>,
       <<"severe", " ", "burn">>,
       <<"choking">>,
       <<"overdose">> >>

\* medical_ai.rs:112-114  emergency_keywords.iter().any(|k| query_lower.contains(k))
RECURSIVE AnyKeyword(_, _)
AnyKeyword(keys, text) ==
    IF keys = <<>> THEN FALSE
    ELSE IF Contains(text, Head(keys)) THEN TRUE
    ELSE AnyKeyword(Tail(keys), text)

EmergencyDetected_caseSensitive(ai_response, original_query) ==
    AnyKeyword(emergency_keywords, original_query)

EmergencyDetected(ai_response, original_query) ==
    AnyKeyword(emergency_keywords, ToLowercase(original_query))

\* str::lines: the pieces between newlines; a final newline opens no line.
RECURSIVE LinesFrom(_, _)
LinesFrom(s, cur) ==
    IF s = <<>> THEN (IF cur = <<>> THEN <<>> ELSE <<cur>>)
    ELSE IF Head(s) = Newline THEN <<cur>> \o LinesFrom(Tail(s), <<>>)
    ELSE LinesFrom(Tail(s), Append(cur, Head(s)))

Lines(s) == LinesFrom(s, <<>>)

\* str::trim_start, str::trim_end, str::trim
RECURSIVE TrimStart(_)
TrimStart(s) ==
    IF s # <<>> /\ Head(s) = Space THEN TrimStart(Tail(s)) ELSE s

RECURSIVE TrimEnd(_)
TrimEnd(s) ==
    IF s # <<>> /\ s[Len(s)] = Space THEN TrimEnd(SubSeq(s, 1, Len(s) - 1)) ELSE s

Trim_startOnly(s) == TrimStart(s)

Trim(s) == TrimEnd(TrimStart(s))

\* medical_ai.rs:159  the test made on a trimmed line
IsRecommendationLine(line) ==
    \/ StartsWith(line, Dash)
    \/ StartsWith(line, Dot)
    \/ Contains(line, <<"recommend">>)

\* medical_ai.rs:156-162  the loop over response.lines()
RECURSIVE CaptureLines(_)
CaptureLines(ls) ==
    IF ls = <<>> THEN <<>>
    ELSE LET line == Trim(Head(ls)) IN
         IF IsRecommendationLine(line)
         THEN <<line>> \o CaptureLines(Tail(ls))
         ELSE CaptureLines(Tail(ls))

SymptomsRec == <<"Monitor symptoms and their progression">>
PainRec == <<"Keep a symptom diary including pain levels and triggers">>

\* MedicalAI::extract_recommendations
ExtractRecommendations_painFirst(response) ==
    LET lower == ToLowercase(response) IN
    CaptureLines(Lines(response))
        \o (IF Contains(lower, <<"pain">>) THEN <<PainRec>> ELSE <<>>)
        \o (IF Contains(lower, <<"symptoms">>) THEN <<SymptomsRec>> ELSE <<>>)

ExtractRecommendations(response) ==
    LET lower == ToLowercase(response) IN
    CaptureLines(Lines(response))
        \o (IF Contains(lower, <<"symptoms">>) THEN <<SymptomsRec>> ELSE <<>>)
        \o (IF Contains(lower, <<"pain">>) THEN <<PainRec>> ELSE <<>>)

\* Bytes of the UTF-8 encoding of a token, and its characters.  "lorem"
\* stands for a run of 96 ASCII characters; the bullet U+2022 takes three
\* bytes.
TokenBytes(c) ==
    CASE c = "lorem" -> 96
      [] c = "*" -> 3
      [] c \in {" ", "\n", "-", "x"} -> 1
      [] c \in {"pain", "PAIN", "diet"} -> 4
      [] c = "chest" -> 5
      [] c \in {"stroke", "STROKE"} -> 6
      [] c = "symptoms" -> 8
      [] c = "recommend" -> 9

TokenChars(c) == IF c = "*" THEN 1 ELSE TokenBytes(c)

\* str::len: the length in bytes.
RECURSIVE ByteLen(_)
ByteLen(s) == IF s = <<>> THEN 0 ELSE TokenBytes(Head(s)) + ByteLen(Tail(s))

\* medical_ai.rs:120
ConfidenceThreshold == 100

\* medical_ai.rs:120; confidences are written in tenths (8 is 0.8).
Confidence_atThreshold(ai_response) ==
    IF ByteLen(ai_response) >= ConfidenceThreshold THEN 8 ELSE 6

Confidence(ai_response) ==
    IF ByteLen(ai_response) > ConfidenceThreshold THEN 8 ELSE 6

\* medical_ai.rs:122  the condition under which medical_guidance is Some
GuidanceIsSome_emergencyOnly(recommendations, emergency_detected) ==
    emergency_detected

GuidanceIsSome(recommendations, emergency_detected) ==
    recommendations # <<>> \/ emergency_detected

\* MedicalAI::analyze_medical_response: the emergency flag, the
\* recommendations, the confidence and the guidance built from them.
AnalyzeMedicalResponse(ai_response, original_query) ==
    LET emergency_detected == EmergencyDetected(ai_response, original_query)
        recommendations == ExtractRecommendations(ai_response)
    IN [response |-> ai_response,
        confidence |-> Confidence(ai_response),
        emergency_detected |-> emergency_detected,
        recommendations |-> recommendations,
        guidance |-> GuidanceIsSome(recommendations, emergency_detected),
        severity |-> IF emergency_detected THEN "high" ELSE "moderate",
        emergency_action |-> emergency_detected]

\* Queries and replies the functions are applied to.
QueryTokens == {"chest", "pain", "PAIN", Space, "STROKE", "diet"}

Queries == SeqsUpTo(QueryTokens, MaxQueryLen)

SampleReplies == {<<"x">>, <<"stroke">>, <<"chest", " ", "pain">>}

Chunks ==
    {Dash, Dot, <<Space>>, <<Newline>>, <<"x", Newline>>,
     <<"PAIN">>, <<"symptoms">>, <<"recommend">>}

RECURSIVE Concat(_)
Concat(cs) == IF cs = <<>> THEN <<>> ELSE Head(cs) \o Concat(Tail(cs))

\* One query analysed with two replies.
CallAnalyze ==
    /\ fn = "none"
    /\ \E q \in Queries, r1, r2 \in SampleReplies :
          /\ arg' = [query |-> q, reply |-> r1, other |-> r2]
          /\ out' = <<AnalyzeMedicalResponse(r1, q), AnalyzeMedicalResponse(r2, q)>>
    /\ fn' = "analyze_medical_response"
    /\ UNCHANGED <<progVars, envVars, taskVars, histVars, mgrVars, appVars>>

\* Replies around the confidence threshold, and the queries they answer.
LongReplies == SeqsUpTo({"lorem", "pain", "x", "*", Space}, 3)

SampleQueries == {<<"diet">>, <<"stroke">>}

CallAnalyzeLong ==
    /\ fn = "none"
    /\ \E q \in SampleQueries, r \in LongReplies :
          /\ arg' = [query |-> q, reply |-> r]
          /\ out' = AnalyzeMedicalResponse(r, q)
    /\ fn' = "analyze_long_reply"
    /\ UNCHANGED <<progVars, envVars, taskVars, histVars, mgrVars, appVars>>

\* Bodies of a /api/chat answer: typed tells whether the body
\* deserialises into ChatResponse (ollama_manager.rs:41-44); content is
\* message.content.
ChatBodies ==
    {[typed |-> FALSE, content |-> <<>>]}
        \cup {[typed |-> TRUE, content |-> r] : r \in SampleReplies}

\* OllamaManager::chat on the outcome of the POST.
Chat(resp) ==
    IF ~resp.sent THEN [ok |-> FALSE, err |-> "send", content |-> <<>>]
    ELSE IF ~IsSuccess(resp.status) THEN [ok |-> FALSE, err |-> "status", content |-> <<>>]
    ELSE IF ~resp.body.typed THEN [ok |-> FALSE, err |-> "json", content |-> <<>>]
    ELSE [ok |-> TRUE, err |-> "none", content |-> resp.body.content]

\* The value of a Result that is Err.
NoValue == [response |-> <<>>]

\* MedicalAI::process_medical_query given the outcome of the chat request.
ProcessMedicalQuery_fallback(query, resp) ==
    LET ai_response == Chat(resp) IN
    IF ~ai_response.ok
    THEN [ok |-> TRUE, err |-> "none",
          value |-> AnalyzeMedicalResponse(<<"lorem">>, query.query)]
    ELSE [ok |-> TRUE, err |-> "none",
          value |-> AnalyzeMedicalResponse(ai_response.content, query.query)]

ProcessMedicalQuery(query, resp) ==
    LET ai_response == Chat(resp) IN
    IF ~ai_response.ok
    THEN [ok |-> FALSE, err |-> ai_response.err, value |-> NoValue]
    ELSE [ok |-> TRUE, err |-> "none",
          value |-> AnalyzeMedicalResponse(ai_response.content, query.query)]

QueryTypes == {"general", "symptoms"}

CallProcess ==
    /\ fn = "none"
    /\ \E q \in SampleQueries, ty \in QueryTypes,
          snt \in BOOLEAN, st \in Statuses, b \in ChatBodies :
          LET query == [query |-> q, query_type |-> ty]
              resp == [sent |-> snt, status |-> st, body |-> b]
          IN /\ arg' = [query |-> query, resp |-> resp]
             /\ out' = ProcessMedicalQuery(query, resp)
    /\ fn' = "process_medical_query"
    /\ UNCHANGED <<progVars, envVars, taskVars, histVars, mgrVars, appVars>>

\* lib.rs:515-522  generate_fallback_response: one of four fixed texts,
\* chosen by the query type, with the query quoted in it.
GenerateFallbackResponse(query, query_type) ==
    LET template == IF query_type \in {"symptoms", "drug_interaction", "medical_term"}
                    THEN query_type ELSE "general"
    IN <<template, "'">> \o query \o <<"'">>

\* lib.rs:134-149  the response built from the result of the service.
AnsweredResponse(ai, session_id, query_type) ==
    [response |-> ai.response,
     confidence |-> ai.confidence,
     session_id |-> session_id,
     conversation_id |-> 1,
     query_type |-> query_type,
     emergency_detected |-> ai.emergency_detected,
     guidance |-> ai.guidance,
     severity |-> IF ai.guidance THEN ai.severity ELSE "none",
     recommendations |-> IF ai.guidance THEN ai.recommendations ELSE <<>>,
     emergency_action |-> ai.guidance /\ ai.emergency_action,
     follow_up |-> ai.guidance]

\* lib.rs:173 and 201-204: the one recommendation of a fallback response.
FallbackAdvice(failed) ==
    IF failed
    THEN <<"Please consult with a healthcare professional for proper medical advice.">>
    ELSE <<"AI service is not available. Please consult with a healthcare professional.">>

\* lib.rs:163-178 (failed = TRUE) and 191-209 (failed = FALSE): the
\* fallback responses; follow_up is Some only in the first.
FallbackResponse_detecting(query, session_id, query_type, failed) ==
    LET emergency == EmergencyDetected(<<>>, query) IN
    [response |-> GenerateFallbackResponse(query, query_type),
     confidence |-> IF failed THEN 5 ELSE 3,
     session_id |-> session_id,
     conversation_id |-> 1,
     query_type |-> query_type,
     emergency_detected |-> emergency,
     guidance |-> TRUE,
     severity |-> IF emergency THEN "high" ELSE "low",
     recommendations |-> << FallbackAdvice(failed) >>,
     emergency_action |-> emergency,
     follow_up |-> failed]

FallbackResponse(query, session_id, query_type, failed) ==
    [response |-> GenerateFallbackResponse(query, query_type),
     confidence |-> IF failed THEN 5 ELSE 3,
     session_id |-> session_id,
     conversation_id |-> 1,
     query_type |-> query_type,
     emergency_detected |-> FALSE,
     guidance |-> TRUE,
     severity |-> "low",
     recommendations |-> << FallbackAdvice(failed) >>,
     emergency_action |-> FALSE,
     follow_up |-> failed]

\* submit_medical_query, lib.rs:123-215: the response returned for a query,
\* given whether the slot holds a service and the outcome of its chat
\* request.
SubmitResponse(query, initialized, resp) ==
    IF initialized
    THEN LET r == ProcessMedicalQuery([query |-> query.query,
                                       query_type |-> query.query_type], resp)
         IN IF r.ok
            THEN AnsweredResponse(r.value, query.session_id, query.query_type)
            ELSE FallbackResponse(query.query, query.session_id, query.query_type, TRUE)
    ELSE FallbackResponse(query.query, query.session_id, query.query_type, FALSE)

SubmitQueries == {<<"diet">>, <<"stroke">>, <<"chest", " ", "PAIN">>}

CallSubmit ==
    /\ fn = "none"
    /\ \E q \in SubmitQueries, ty \in QueryTypes, initialized \in BOOLEAN,
          snt \in BOOLEAN, st \in Statuses, b \in ChatBodies :
          LET query == [query |-> q, query_type |-> ty, session_id |-> "a"]
              resp == [sent |-> snt, status |-> st, body |-> b]
          IN /\ arg' = [query |-> query, initialized |-> initialized, resp |-> resp]
             /\ out' = SubmitResponse(query, initialized, resp)
    /\ fn' = "submit_medical_query"
    /\ UNCHANGED <<progVars, envVars, taskVars, histVars, mgrVars, appVars>>

CallExtract ==
    /\ fn = "none"
    /\ \E cs \in SeqsUpTo(Chunks, MaxChunks) :
          /\ arg' = Concat(cs)
          /\ out' = ExtractRecommendations(Concat(cs))
    /\ fn' = "extract_recommendations"
    /\ UNCHANGED <<progVars, envVars, taskVars, histVars, mgrVars, appVars>>

\* The caller takes the result; the next call starts afresh.
FnReturn ==
    /\ fn # "none"
    /\ fn' = "none"
    /\ arg' = <<>>
    /\ out' = <<>>
    /\ UNCHANGED <<progVars, envVars, taskVars, histVars, mgrVars, appVars>>

NextFn ==
    \/ FnReturn
    \/ CallEnsureModel
    \/ CallHealthCheck
    \/ CallListModels
    \/ CallAnalyze
    \/ CallAnalyzeLong
    \/ CallProcess
    \/ CallSubmit
    \/ CallExtract

SpecFn == Init /\ [][NextFn]_vars

\* ------------------------------------------------- commands and locks
\* The seven commands of lib.rs at the grain of their locks: the async
\* mutex of medical_ai and the two std mutexes of conversations and
\* sessions.  What initialize does under its guard is the subject of Spec;
\* here it is one network step.
MaxLog   == 2
MaxUuids == 1
MaxCalls == 3

\* The n-th value of Uuid::new_v4(): distinct from every other.
UuidNames == <<"u1", "u2", "u3">>

Uuid(n) == UuidNames[n]

\* Session ids a client can pass: one of its own making, and the ids the
\* application has handed out.
KnownSessions == {"a"} \cup {Uuid(n) : n \in 1..uuids}

\* Outcomes of the chat request of a query.
AppChatOutcomes ==
    {[sent |-> FALSE, status |-> 200, body |-> [typed |-> FALSE, content |-> <<>>]],
     [sent |-> TRUE, status |-> 500, body |-> [typed |-> FALSE, content |-> <<>>]],
     [sent |-> TRUE, status |-> 200, body |-> [typed |-> TRUE, content |-> <<"x">>]]}

\* No chat request is made.
NoChat == [sent |-> FALSE, status |-> 0, body |-> [typed |-> FALSE, content |-> <<>>]]

\* The query text of the commands followed here.
AppQuery == <<"stroke">>

\* Queries whose response is not yet in the log.
QueriesInFlight == {t \in Tasks : cmd[t] = "query" /\ pc[t] \notin {"idle", "ret"}}

appFrame == <<mgr, proc, exited, envVars, histVars, work, seRes, seProbe,
              extProbe, sawInit, mgrVars, fnVars>>

\* A command is invoked and runs up to its first lock.  create_session
\* (lib.rs:98-103) and a query without session id (116-118) draw a uuid.
AppInvoke(t) ==
    /\ ~exited
    /\ pc[t] = "idle"
    /\ calls < MaxCalls
    /\ \/ /\ uuids < MaxUuids
          /\ cmd' = [cmd EXCEPT ![t] = "create_session"]
          /\ app' = [app EXCEPT !.req[t] = [session_id |-> Uuid(uuids + 1)],
                                !.uuids = @ + 1, !.calls = @ + 1]
          /\ pc' = [pc EXCEPT ![t] = "sess_wait"]
       \/ /\ Len(conversations) + Cardinality(QueriesInFlight) < MaxLog
          /\ cmd' = [cmd EXCEPT ![t] = "query"]
          /\ \/ /\ uuids < MaxUuids
                /\ app' = [app EXCEPT !.req[t] = [session_id |-> Uuid(uuids + 1)],
                                      !.uuids = @ + 1, !.calls = @ + 1]
             \/ \E s \in KnownSessions :
                   app' = [app EXCEPT !.req[t] = [session_id |-> s], !.calls = @ + 1]
          /\ pc' = [pc EXCEPT ![t] = "lock"]
       \/ /\ cmd' = [cmd EXCEPT ![t] = "history"]
          /\ \E s \in KnownSessions :
                app' = [app EXCEPT !.req[t] = [session_id |-> s], !.calls = @ + 1]
          /\ pc' = [pc EXCEPT ![t] = "conv_wait"]
       \/ /\ \E c \in {"health", "models", "init", "stop"} :
                cmd' = [cmd EXCEPT ![t] = c]
          /\ pc' = [pc EXCEPT ![t] = "lock"]
          /\ app' = [app EXCEPT !.calls = @ + 1]
    /\ UNCHANGED <<medical_ai, slotOwner, res>>
    /\ UNCHANGED appFrame

\* The query of task t as submit_medical_query sees it.
AppQueryOf(t) ==
    [query |-> AppQuery, query_type |-> "general", session_id |-> req[t].session_id]

\* `state.medical_ai.lock().await` returns (lib.rs:121, 221, 262, 311, 318).
\* A query keeps the guard: across the chat call when there is a service,
\* to the end of the function when there is none.
AppSlotAcquire(t) ==
    /\ ~exited
    /\ pc[t] = "lock"
    /\ slotOwner = 0
    /\ CASE cmd[t] = "query" ->
              /\ slotOwner' = t
              /\ IF medical_ai.some
                 THEN /\ pc' = [pc EXCEPT ![t] = "chat"]
                      /\ UNCHANGED res
                 ELSE /\ res' = [res EXCEPT ![t] =
                                    SubmitResponse(AppQueryOf(t), FALSE, NoChat)]
                      /\ pc' = [pc EXCEPT ![t] = "conv_wait"]
              /\ UNCHANGED medical_ai
         [] cmd[t] \in {"health", "models"} ->
              /\ IF medical_ai.some
                 THEN /\ slotOwner' = t
                      /\ pc' = [pc EXCEPT ![t] = "probe"]
                      /\ UNCHANGED res
                 ELSE /\ res' = [res EXCEPT ![t] = "not_initialized"]
                      /\ pc' = [pc EXCEPT ![t] = "ret"]
                      /\ UNCHANGED slotOwner
              /\ UNCHANGED medical_ai
         [] cmd[t] = "init" ->
              /\ IF AlreadyInitialized(medical_ai)
                 THEN /\ res' = [res EXCEPT ![t] = "already"]
                      /\ pc' = [pc EXCEPT ![t] = "ret"]
                      /\ UNCHANGED slotOwner
                 ELSE /\ slotOwner' = t
                      /\ pc' = [pc EXCEPT ![t] = "init_net"]
                      /\ UNCHANGED res
              /\ UNCHANGED medical_ai
         [] cmd[t] = "stop" ->
              /\ medical_ai' = NoMgr
              /\ res' = [res EXCEPT ![t] = "stopped"]
              /\ pc' = [pc EXCEPT ![t] = "ret"]
              /\ UNCHANGED slotOwner
    /\ UNCHANGED <<cmd, app>>
    /\ UNCHANGED appFrame

\* lib.rs:132-152 and 158-180: process_medical_query returns, the response
\* is built and the guard of medical_ai dropped.
AppChatDone(t) ==
    /\ ~exited
    /\ pc[t] = "chat"
    /\ \E o \in AppChatOutcomes :
          res' = [res EXCEPT ![t] = SubmitResponse(AppQueryOf(t), TRUE, o)]
    /\ slotOwner' = 0
    /\ pc' = [pc EXCEPT ![t] = "conv_wait"]
    /\ UNCHANGED <<medical_ai, cmd, app>>
    /\ UNCHANGED appFrame

\* lib.rs:223-237 and 321-328: health_check returns under the guard.
AppProbeDone(t) ==
    /\ ~exited
    /\ pc[t] = "probe"
    /\ \E up \in BOOLEAN :
          res' = [res EXCEPT ![t] = IF up THEN "up" ELSE "down"]
    /\ slotOwner' = 0
    /\ pc' = [pc EXCEPT ![t] = "ret"]
    /\ UNCHANGED <<medical_ai, cmd, app>>
    /\ UNCHANGED appFrame

\* lib.rs:265-306: the start procedure ends, with a service stored or not.
AppInitDone(t) ==
    /\ ~exited
    /\ pc[t] = "init_net"
    /\ \E ok \in BOOLEAN :
          /\ medical_ai' = IF ok THEN NewManager ELSE medical_ai
          /\ res' = [res EXCEPT ![t] = IF ok THEN "initialized" ELSE "unavailable"]
    /\ slotOwner' = 0
    /\ pc' = [pc EXCEPT ![t] = "ret"]
    /\ UNCHANGED <<cmd, app>>
    /\ UNCHANGED appFrame

\* `state.conversations.lock().unwrap()` returns (lib.rs:153, 181, 211, 245).
AppConvAcquire(t) ==
    /\ ~exited
    /\ pc[t] = "conv_wait"
    /\ convOwner = 0
    /\ app' = [app EXCEPT !.convOwner = t]
    /\ pc' = [pc EXCEPT ![t] = "conv_held"]
    /\ UNCHANGED <<medical_ai, slotOwner, cmd, res>>
    /\ UNCHANGED appFrame

\* lib.rs:246-250  the records of a session, in the order of the log.
SessionConversations_all(convs, session_id) == convs

SessionConversations(convs, session_id) ==
    SelectSeq(convs, LAMBDA conv : conv.session_id = session_id)

\* The owner of a std mutex once its guard went out of scope.
GuardDropped_leaked(owner) == owner

GuardDropped(owner) == 0

\* Under the guard of conversations: a query pushes a clone of its response
\* (lib.rs:154, 182, 212), get_session_history filters the log (246-250).
\* The function returns and its guards are dropped, the guard of medical_ai
\* among them when the query found no service.
AppConvRelease(t) ==
    /\ ~exited
    /\ pc[t] = "conv_held"
    /\ IF cmd[t] = "query"
       THEN /\ app' = [app EXCEPT !.conversations = Append(@, res[t]),
                                  !.convOwner = GuardDropped(@)]
            /\ UNCHANGED res
       ELSE /\ res' = [res EXCEPT ![t] = SessionConversations(conversations, req[t].session_id)]
            /\ app' = [app EXCEPT !.convOwner = GuardDropped(@)]
    /\ slotOwner' = IF slotOwner = t THEN 0 ELSE slotOwner
    /\ pc' = [pc EXCEPT ![t] = "ret"]
    /\ UNCHANGED <<medical_ai, cmd>>
    /\ UNCHANGED appFrame

\* `state.sessions.lock().unwrap()` returns (lib.rs:105).
AppSessAcquire(t) ==
    /\ ~exited
    /\ pc[t] = "sess_wait"
    /\ sessOwner = 0
    /\ app' = [app EXCEPT !.sessOwner = t]
    /\ pc' = [pc EXCEPT ![t] = "sess_held"]
    /\ UNCHANGED <<medical_ai, slotOwner, cmd, res>>
    /\ UNCHANGED appFrame

\* lib.rs:106-108: the session is inserted and returned.
AppSessRelease(t) ==
    /\ ~exited
    /\ pc[t] = "sess_held"
    /\ app' = [app EXCEPT !.sessions = @ \cup {req[t].session_id},
                          !.sessOwner = GuardDropped(@)]
    /\ res' = [res EXCEPT ![t] = req[t].session_id]
    /\ pc' = [pc EXCEPT ![t] = "ret"]
    /\ UNCHANGED <<medical_ai, slotOwner, cmd>>
    /\ UNCHANGED appFrame

\* The caller takes the result.
AppReturn(t) ==
    /\ ~exited
    /\ pc[t] = "ret"
    /\ pc' = [pc EXCEPT ![t] = "idle"]
    /\ cmd' = [cmd EXCEPT ![t] = "none"]
    /\ res' = [res EXCEPT ![t] = "none"]
    /\ app' = [app EXCEPT !.req[t] = NoReq]
    /\ UNCHANGED <<medical_ai, slotOwner>>
    /\ UNCHANGED appFrame

\* A step of a command already invoked.
AppStep(t) ==
    \/ AppSlotAcquire(t)
    \/ AppChatDone(t)
    \/ AppProbeDone(t)
    \/ AppInitDone(t)
    \/ AppConvAcquire(t)
    \/ AppConvRelease(t)
    \/ AppSessAcquire(t)
    \/ AppSessRelease(t)
    \/ AppReturn(t)

NextApp ==
    \/ \E t \in Tasks : AppInvoke(t)
    \/ \E t \in Tasks : AppSlotAcquire(t)
    \/ \E t \in Tasks : AppChatDone(t)
    \/ \E t \in Tasks : AppProbeDone(t)
    \/ \E t \in Tasks : AppInitDone(t)
    \/ \E t \in Tasks : AppConvAcquire(t)
    \/ \E t \in Tasks : AppConvRelease(t)
    \/ \E t \in Tasks : AppSessAcquire(t)
    \/ \E t \in Tasks : AppSessRelease(t)
    \/ \E t \in Tasks : AppReturn(t)

\* The commands do not look at the environment of the service.
InitApp == Init /\ startable /\ ~extUp /\ ~installed

SpecApp == InitApp /\ [][NextApp]_vars

\* ---------------------------------------------------------------- claims
\* A task is at an await point of a request to the inference server.
InNetworkCall(t) == pc[t] \in {"se_probe", "ext_probe", "list", "pull", "chat", "health"}

\* Task t took the step that leaves the wait for the service-slot lock.
Acquires(t, c) == pc[t] = "lock" /\ cmd[t] = c /\ pc'[t] # "lock" /\ ~exited'

\* C1 (as stated): once two initialize calls have returned, with no stop in
\* between, exactly one child process has been spawned.
C1_ExactlyOneSpawned == initRets >= 2 => spawns = 1

\* C1 (amended): initialize calls that are not separated by a stop spawn at
\* most one child process, and exactly one when the manager in the slot was
\* started by spawning; a caller that finds the service initialized returns
\* success without spawning.
C1_AtMostOneSpawned ==
    /\ spawns <= 1
    /\ (medical_ai.some /\ medical_ai.process # 0) => spawns = 1
    /\ \A t \in Tasks :
          (pc[t] = "ret" /\ cmd[t] = "init" /\ sawInit[t]) =>
              (res[t] = "already" /\ "spawn" \notin work[t])

\* C1 witness: one initialize spawned the child and succeeded, the other
\* returned "already initialized".
C1_Witness ==
    \E t1, t2 \in Tasks :
        /\ t1 # t2
        /\ pc[t1] = "ret" /\ cmd[t1] = "init" /\ res[t1] = "ok" /\ "spawn" \in work[t1]
        /\ pc[t2] = "ret" /\ cmd[t2] = "init" /\ res[t2] = "already"
        /\ spawns = 1

\* C2 (as stated): when the liveness probe of start_embedded returns false,
\* start_embedded fails.
C2_ProbeFalseFailsStart ==
    \A t \in Tasks : seProbe[t] = "down" => seRes[t] = "err"

\* C3: initialize tries start_embedded first, probes for an external
\* instance only after start_embedded failed, returns Unavailable exactly
\* when start_embedded failed and the probe was false, and succeeds when
\* start_embedded succeeded or the probe was true.
C3_InitOrder ==
    \A t \in Tasks :
        cmd[t] = "init" =>
            /\ (pc[t] \in {"se_sleep", "se_probe"} => seRes[t] = "none" /\ extProbe[t] = "none")
            /\ (pc[t] = "ext_probe" => seRes[t] = "err")
            /\ (extProbe[t] # "none" => seRes[t] = "err")
            /\ (pc[t] \in {"list", "pull"} => seRes[t] = "ok" \/ extProbe[t] = "up")
            /\ (pc[t] = "ret" /\ ~sawInit[t] =>
                  /\ seRes[t] # "none"
                  /\ (seRes[t] = "err" => extProbe[t] # "none")
                  /\ (res[t] = "unavailable" <=> (seRes[t] = "err" /\ extProbe[t] = "down"))
                  /\ (res[t] = "ok" <=> (seRes[t] = "ok" \/ extProbe[t] = "up")))

\* C3 witness: start_embedded failed, the external probe answered, and
\* initialize returned success.
C3_Witness ==
    \E t \in Tasks :
        /\ pc[t] = "ret" /\ cmd[t] = "init" /\ res[t] = "ok"
        /\ seRes[t] = "err" /\ extProbe[t] = "up"

\* C4: the step in which initialize returns Unavailable leaves the slot
\* empty, no manager, no lock held and no child alive; an initialize made
\* after such a failure runs start_embedded again, falls back to the probe,
\* and succeeds when the server can be started or answers.
C4_UnavailableIsNotPersistent ==
    [][\A t \in Tasks :
          /\ (pc[t] # "ret" /\ pc'[t] = "ret" /\ res'[t] = "unavailable") =>
                /\ ~medical_ai'.some
                /\ ~mgr'[t].some
                /\ slotOwner' = 0
                /\ LiveChildren' = {}
          /\ (failedOnce /\ Acquires(t, "init") /\ ~medical_ai.some) =>
                IF startable
                THEN pc'[t] = "se_sleep" /\ mgr'[t].process # 0
                ELSE pc'[t] = "ext_probe"
          /\ (failedOnce /\ pc[t] = "ext_probe" /\ pc'[t] # "ext_probe" /\ ~exited' /\ ServerUp) =>
                pc'[t] = "list"
          /\ (failedOnce /\ pc[t] \in {"se_probe", "list", "pull"} /\ pc'[t] = "ret") =>
                (res'[t] = "ok" /\ medical_ai'.some)
      ]_vars

\* C4 witness: after an initialize returned Unavailable, a new initialize
\* has spawned the server and its start_embedded has succeeded.
C4_Witness ==
    \E t \in Tasks :
        /\ failedOnce
        /\ cmd[t] = "init" /\ pc[t] = "list"
        /\ seRes[t] = "ok" /\ "spawn" \in work[t]

\* C5: an initialize that finds the service initialized returns success in
\* the same step, with no spawn, probe, list or pull, and changes nothing.
C5_AlreadyInitializedNoWork ==
    [][\A t \in Tasks :
          (Acquires(t, "init") /\ medical_ai.some) =>
              /\ pc'[t] = "ret" /\ res'[t] = "already"
              /\ work'[t] = {}
              /\ UNCHANGED <<medical_ai, slotOwner, mgr, proc, exited, envVars>>
      ]_vars

\* C5 witness: an initialize returned "already initialized" for a manager
\* attached to an external instance (no child handle).
C5_Witness ==
    \E t \in Tasks :
        /\ pc[t] = "ret" /\ cmd[t] = "init" /\ res[t] = "already" /\ sawInit[t]
        /\ medical_ai.some /\ medical_ai.process = 0

\* C6: at most one child process spawned by the application is alive.
C6_AtMostOneLiveChild == Cardinality(LiveChildren) <= 1

\* C6 witness: a stop of an initialized service has returned and a child
\* spawned by an initialize is alive.
C6_Witness ==
    \E t1, t2 \in Tasks :
        /\ pc[t1] = "ret" /\ res[t1] = "stopped" /\ sawInit[t1]
        /\ cmd[t2] = "init" /\ "spawn" \in work[t2]
        /\ Cardinality(LiveChildren) = 1

\* C7 (as stated): once the application has terminated, no child process
\* spawned by it is alive.
C7_NoOrphanAfterExit == exited => LiveChildren = {}

\* C8 (as stated): neither the service-slot lock nor the process-handle
\* lock is held by a task while its request to the server is in progress.
C8_NoLockAcrossNetworkCall ==
    \A t \in Tasks :
        InNetworkCall(t) => (slotOwner # t /\ ~mgr[t].locked)

\* C9 (as stated): a chat call needs no lock, so while one query is inside
\* its chat call another query can enter its own.
C9_QueriesConcurrentInChat ==
    \A t1, t2 \in Tasks :
        (pc[t1] = "chat" /\ pc[t2] = "lock" /\ cmd[t2] = "query" /\ ~exited) =>
            slotOwner = 0

\* C10: the step in which stop_ai_service runs empties the slot, leaves the
\* child of the stopped manager terminated and reaped and no child alive,
\* touches no other process and nothing of an external instance, and
\* returns success.
C10_ShutdownStopsChild ==
    [][\A t \in Tasks :
          Acquires(t, "stop") =>
              /\ pc'[t] = "ret" /\ res'[t] = "stopped"
              /\ ~medical_ai'.some
              /\ (medical_ai.process # 0 => proc'[medical_ai.process] = "none")
              /\ \A p \in Pids : p # medical_ai.process => proc'[p] = proc[p]
              /\ LiveChildren' = {}
              /\ UNCHANGED envVars
      ]_vars

\* C10 witness: a stop of an initialized service has returned, the child an
\* initialize had spawned is gone and the slot is empty.
C10_Witness ==
    \E t1, t2 \in Tasks :
        /\ pc[t1] = "ret" /\ res[t1] = "stopped" /\ sawInit[t1]
        /\ pc[t2] = "ret" /\ res[t2] = "ok" /\ "spawn" \in work[t2]
        /\ ~medical_ai.some
        /\ \A p \in Pids : proc[p] = "none"

\* Task t took the step in which its call c of om obtains the process mutex.
MgrAcquires(t, c) == pc[t] = "plock" /\ cmd[t] = c /\ pc'[t] # "plock"

\* Tasks between the spawn and the return of start_embedded.
StartsInFlight == {t \in Tasks : cmd[t] = "start" /\ pc[t] \in {"se_sleep", "se_probe"}}

\* C11: when stop_embedded returns, ok or failed, no handle is held; when it
\* returns ok for a held handle, that child has exited and been reaped.
C11_StopClearsHandle ==
    [][\A t \in Tasks :
          MgrAcquires(t, "stop") =>
              /\ pc'[t] = "ret"
              /\ om'.process = 0
              /\ (res'[t] = "ok" /\ om.process # 0) => proc'[om.process] = "none"
              /\ \A p \in Pids : p # om.process => proc'[p] = proc[p]
      ]_vars

\* C11 witness: stop_embedded found a handle, returned ok, and neither a
\* handle nor a child is left.
C11_Witness ==
    \E t \in Tasks :
        /\ pc[t] = "ret" /\ cmd[t] = "stop" /\ res[t] = "ok" /\ sawHandle[t]
        /\ om.process = 0
        /\ \A p \in Pids : proc[p] = "none"

\* C12: stop_embedded with no handle held returns ok and changes nothing;
\* a stop that directly follows another stop is such a no-op.
C12_StopWithoutHandleIsNoOp ==
    [][\A t \in Tasks :
          MgrAcquires(t, "stop") =>
              /\ (om.process = 0 =>
                    /\ pc'[t] = "ret" /\ res'[t] = "ok"
                    /\ UNCHANGED <<om, omOwner, proc, envVars>>)
              /\ (stopsInRow >= 1 => om.process = 0)
      ]_vars

\* C12 witness: a second stop in a row returned ok without having found a
\* handle.
C12_Witness ==
    \E t \in Tasks :
        /\ pc[t] = "ret" /\ cmd[t] = "stop" /\ res[t] = "ok" /\ ~sawHandle[t]
        /\ stopsInRow = 2

\* C13: a start_embedded that finds a handle held returns ok without
\* spawning, creating a directory or probing, and leaves handle and children
\* as they are; at most one start is between its spawn and its return.
C13_StartWithHandleIsNoOp ==
    [][/\ \A t \in Tasks :
             (MgrAcquires(t, "start") /\ om.process # 0) =>
                 /\ pc'[t] = "ret" /\ res'[t] = "ok"
                 /\ work'[t] = {}
                 /\ UNCHANGED <<om, omOwner, proc, envVars>>
       /\ Cardinality(StartsInFlight') <= 1
      ]_vars

\* C13 witness: a start_embedded found the handle held and returned ok
\* having done nothing; the handle is still held.
C13_Witness ==
    \E t \in Tasks :
        /\ pc[t] = "ret" /\ cmd[t] = "start" /\ res[t] = "ok" /\ sawHandle[t]
        /\ work[t] = {}
        /\ om.process # 0

\* C14: whenever start_embedded or the external probe has succeeded,
\* ensure_model is attempted, and whatever its outcome initialize returns
\* success with the service in the slot.
C14_EnsureModelFailureNotFatal ==
    [][\A t \in Tasks :
          /\ (cmd[t] = "init" /\ pc[t] \in {"se_probe", "ext_probe"}
                /\ pc'[t] # pc[t] /\ ~exited'
                /\ (seRes'[t] = "ok" \/ extProbe'[t] = "up")) => pc'[t] = "list"
          /\ (cmd[t] = "init" /\ pc[t] = "list" /\ pc'[t] # "list" /\ ~exited') =>
                \/ pc'[t] = "pull"
                \/ pc'[t] = "ret" /\ res'[t] = "ok" /\ medical_ai'.some
          /\ (cmd[t] = "init" /\ pc[t] = "pull" /\ pc'[t] # "pull" /\ ~exited') =>
                (pc'[t] = "ret" /\ res'[t] = "ok" /\ medical_ai'.some)
          /\ (cmd[t] = "init" /\ pc'[t] = "ret" /\ res'[t] = "ok") => "list" \in work'[t]
      ]_vars

\* C14 witness: initialize returned success although the required model is
\* still not installed after the list (and pull) it issued, i.e. ensure_model
\* failed.
C14_Witness ==
    \E t \in Tasks :
        /\ pc[t] = "ret" /\ cmd[t] = "init" /\ res[t] = "ok"
        /\ "list" \in work[t]
        /\ ~installed
        /\ medical_ai.some

\* ------------------------------------------------ claims on the functions
\* n occurs in s at some position.
HasSubstring(s, n) ==
    \E i \in 0..(Len(s) - Len(n)) : SubSeq(s, i + 1, i + Len(n)) = n

\* n occurs in s at some position, letter case apart.
HasSubstringIgnoringCase(s, n) ==
    \E i \in 0..(Len(s) - Len(n)) :
        \A j \in 1..Len(n) : LowerToken(s[i + j]) = LowerToken(n[j])

\* The k-th smallest element of a set of numbers.
Nth(S, k) == CHOOSE i \in S : Cardinality({j \in S : j <= i}) = k

\* C15: ensure_model calls pull_model exactly when the listing succeeded and
\* no listed entry contains the name as a substring; when some entry
\* contains it, the call returns Ok without pulling.
C15_PullIffNoEntryContainsName ==
    fn = "ensure_model" =>
        LET ms == arg.list.models
            found == \E i \in 1..Len(ms) : HasSubstring(ms[i], arg.model)
        IN /\ out.pulled <=> (arg.list.ok /\ ~found)
           /\ (arg.list.ok /\ found) => out.ok

\* C15 witness: "x:latest" is installed, "x" itself is not, "x" is required.
C15_Witness ==
    /\ fn = "ensure_model"
    /\ arg.model = <<"x">>
    /\ arg.list.ok
    /\ \E i \in 1..Len(arg.list.models) : arg.list.models[i] = <<"x", ":latest">>
    /\ \A i \in 1..Len(arg.list.models) : arg.list.models[i] # <<"x">>
    /\ out.ok /\ ~out.pulled

\* C16: health_check never returns Err; its value is true exactly when the
\* request was answered with a status in 200..299, so it is false for every
\* transport error and every other status.
C16_HealthCheckNeverFails ==
    fn = "health_check" =>
        /\ ~out.err
        /\ out.value <=> (arg.sent /\ arg.status \in 200..299)

\* C16 witness: a transport error, and an answer with a non-success status,
\* are both reported as the value false.
C16_Witness ==
    /\ fn = "health_check"
    /\ ~out.err /\ ~out.value
    /\ ~arg.sent \/ arg.status = 404

\* The body is an object whose "models" is an array of entries that all
\* carry a string name.
ExpectedShape(b) ==
    /\ b.json /\ b.top = "object" /\ b.models = "array"
    /\ \A i \in 1..Len(b.entries) : b.entries[i].k = "str"

\* C17 as stated: list_models fails when the request cannot be sent, and
\* returns a list only for a payload of the expected shape.
C17_BadShapeFails ==
    fn = "list_models" =>
        /\ ~arg.sent => ~out.ok
        /\ out.ok => ExpectedShape(arg.body)

\* C17: list_models fails exactly when the request cannot be sent, the
\* status is not a success status or the body is not JSON.  For a JSON body
\* it returns the string names of the entries of the "models" array, in
\* order, skipping the other entries, and the empty list when there is no
\* such array.
C17_FailsOnlyOnSendStatusOrJson ==
    fn = "list_models" =>
        LET b == arg.body
            named == {i \in 1..Len(b.entries) : b.entries[i].k = "str"}
        IN /\ out.ok <=> (arg.sent /\ arg.status \in 200..299 /\ b.json)
           /\ out.ok =>
                 IF b.top = "object" /\ b.models = "array"
                 THEN /\ Len(out.models) = Cardinality(named)
                      /\ \A j \in 1..Cardinality(named) :
                            out.models[j] = b.entries[Nth(named, j)].name
                 ELSE out.models = <<>>

\* C17 witness: a successful list for a payload of another shape.
C17_Witness ==
    /\ fn = "list_models"
    /\ out.ok
    /\ ~ExpectedShape(arg.body)

\* C18: emergency_detected is true exactly when the query, letter case
\* apart, contains one of the keywords; the reply has no part in it: the
\* same query with another reply gives the same flag.
C18_EmergencyFromQueryOnly ==
    fn = "analyze_medical_response" =>
        /\ out[1].emergency_detected <=>
              \E i \in 1..Len(emergency_keywords) :
                  HasSubstringIgnoringCase(arg.query, emergency_keywords[i])
        /\ out[2].emergency_detected = out[1].emergency_detected

\* C18 witness: a query spelling a keyword with capitals raises the flag
\* with a reply free of keywords, and a query without keyword does not
\* raise it though the reply holds one.
C18_Witness ==
    /\ fn = "analyze_medical_response"
    /\ \/ /\ arg.query = <<"chest", " ", "PAIN">>
          /\ arg.reply = <<"x">> /\ arg.other = <<"stroke">>
          /\ out[1].emergency_detected /\ out[2].emergency_detected
       \/ /\ arg.query = <<"diet">>
          /\ arg.reply = <<"chest", " ", "pain">> /\ arg.other = <<"x">>
          /\ ~out[1].emergency_detected /\ ~out[2].emergency_detected

\* The lines of a reply, by the positions of its line breaks.
Breaks(s) == {i \in 1..Len(s) : s[i] = Newline}

NumLines(s) ==
    Cardinality(Breaks(s)) + (IF s # <<>> /\ s[Len(s)] # Newline THEN 1 ELSE 0)

ReplyLine(s, k) ==
    SubSeq(s,
           IF k = 1 THEN 1 ELSE Nth(Breaks(s), k - 1) + 1,
           IF k <= Cardinality(Breaks(s)) THEN Nth(Breaks(s), k) - 1 ELSE Len(s))

\* A line without the whitespace around it.
Stripped(l) ==
    LET inked == {i \in 1..Len(l) : l[i] # Space} IN
    IF inked = {} THEN <<>>
    ELSE SubSeq(l, Nth(inked, 1), Nth(inked, Cardinality(inked)))

\* e is l without the whitespace around it: l is e between two runs of
\* spaces, and e neither starts nor ends with a space.
IsStrippedOf(e, l) ==
    /\ e = <<>> \/ (e[1] # Space /\ e[Len(e)] # Space)
    /\ \E a \in 0..Len(l) :
          /\ a + Len(e) <= Len(l)
          /\ SubSeq(l, a + 1, a + Len(e)) = e
          /\ \A i \in 1..Len(l) : (i <= a \/ i > a + Len(e)) => l[i] = Space

\* The line starts with a bullet marker or contains "recommend".
Marked(l) ==
    \/ HasSubstring(l, <<"recommend">>)
    \/ Len(l) >= 2 /\ l[1] \in {"-", "*"} /\ l[2] = Space

\* The boilerplate entries a reply calls for, symptoms before pain.
Boilerplate(r) ==
    (IF HasSubstringIgnoringCase(r, <<"symptoms">>) THEN <<SymptomsRec>> ELSE <<>>)
        \o (IF HasSubstringIgnoringCase(r, <<"pain">>) THEN <<PainRec>> ELSE <<>>)

\* C19 as stated: the entries are the reply lines that start with a bullet
\* marker or contain "recommend", in reply order, then the boilerplate.
C19_MarkedLinesThenBoilerplate ==
    fn = "extract_recommendations" =>
        LET sel == {k \in 1..NumLines(arg) : Marked(ReplyLine(arg, k))}
            n == Cardinality(sel)
            tail == Boilerplate(arg)
        IN /\ Len(out) = n + Len(tail)
           /\ \A j \in 1..n : out[j] = ReplyLine(arg, Nth(sel, j))
           /\ \A j \in 1..Len(tail) : out[n + j] = tail[j]

\* C19: the entries are, in reply order and with repetitions kept, the
\* reply lines that start with a bullet marker or contain "recommend" once
\* the whitespace around them is removed, each without that whitespace;
\* then the symptoms entry if the reply contains "symptoms", then the pain
\* entry if it contains "pain", letter case apart.
C19_StrippedMarkedLinesThenBoilerplate ==
    fn = "extract_recommendations" =>
        LET sel == {k \in 1..NumLines(arg) : Marked(Stripped(ReplyLine(arg, k)))}
            n == Cardinality(sel)
            tail == Boilerplate(arg)
        IN /\ Len(out) = n + Len(tail)
           /\ \A j \in 1..n : out[j] = Stripped(ReplyLine(arg, Nth(sel, j)))
           /\ \A j \in 1..Len(tail) : out[n + j] = tail[j]

\* C19 witness: two bullet lines, the second naming pain, give both lines
\* and then the pain entry; the same bullet line twice is kept twice.
C19_Witness ==
    /\ fn = "extract_recommendations"
    /\ \/ /\ arg = <<"-", " ", "x", Newline, "-", " ", "PAIN">>
          /\ out = << <<"-", " ", "x">>, <<"-", " ", "PAIN">>, PainRec >>
       \/ /\ arg = <<"-", " ", "x", Newline, "-", " ", "x", Newline>>
          /\ out = << <<"-", " ", "x">>, <<"-", " ", "x">> >>

\* C20 as stated: every reply line that starts with a bullet marker or
\* contains "recommend" is an entry, equal to the line token for token.
C20_CapturedVerbatim ==
    fn = "extract_recommendations" =>
        \A k \in 1..NumLines(arg) :
            Marked(ReplyLine(arg, k)) =>
                \E j \in 1..Len(out) : out[j] = ReplyLine(arg, k)

\* C20: every reply line that, without the whitespace around it, starts
\* with a bullet marker or contains "recommend" is an entry, equal to the
\* line without the whitespace around it; and every entry that is not
\* boilerplate is such a line.
C20_CapturedWithoutSurroundingSpace ==
    fn = "extract_recommendations" =>
        LET n == Len(out) - Len(Boilerplate(arg)) IN
        /\ \A k \in 1..NumLines(arg) :
              Marked(Stripped(ReplyLine(arg, k))) =>
                  \E j \in 1..n : IsStrippedOf(out[j], ReplyLine(arg, k))
        /\ \A j \in 1..n :
              \E k \in 1..NumLines(arg) :
                  /\ IsStrippedOf(out[j], ReplyLine(arg, k))
                  /\ Marked(out[j])

\* C20 witness: an indented bullet line followed by a space is captured
\* without the indentation and without the space after it.
C20_Witness ==
    /\ fn = "extract_recommendations"
    /\ arg = <<Space, "-", " ", "recommend", Space>>
    /\ out = << <<"-", " ", "recommend">> >>

\* Some line of the reply is captured, or the reply calls for boilerplate.
HasRecommendation(r) ==
    \/ Boilerplate(r) # <<>>
    \/ \E k \in 1..NumLines(r) : Marked(Stripped(ReplyLine(r, k)))

\* The query holds an emergency keyword, letter case apart.
HasEmergencyKeyword(q) ==
    \E i \in 1..Len(emergency_keywords) :
        HasSubstringIgnoringCase(q, emergency_keywords[i])

\* C21: the guidance object is present exactly when the query holds an
\* emergency keyword or the reply yields at least one recommendation.
C21_GuidanceIffEmergencyOrRecommendation ==
    /\ fn = "analyze_medical_response" =>
          \A i \in 1..2 :
              out[i].guidance <=>
                  (out[i].emergency_detected \/ Len(out[i].recommendations) >= 1)
    /\ fn = "analyze_long_reply" =>
          out.guidance <=> (HasEmergencyKeyword(arg.query) \/ HasRecommendation(arg.reply))

\* C21 witness: a reply with a recommendation to a query without keyword
\* has guidance; a reply without any to the same query has none.
C21_Witness ==
    /\ fn = "analyze_medical_response"
    /\ ~out[1].emergency_detected
    /\ out[1].recommendations # <<>> /\ out[1].guidance
    /\ out[2].recommendations = <<>> /\ ~out[2].guidance

\* Characters of a text, and bytes of its UTF-8 encoding.
CharLength(s) ==
    LET sum[i \in 0..Len(s)] == IF i = 0 THEN 0 ELSE sum[i - 1] + TokenChars(s[i])
    IN sum[Len(s)]

Utf8Length(s) ==
    LET sum[i \in 0..Len(s)] == IF i = 0 THEN 0 ELSE sum[i - 1] + TokenBytes(s[i])
    IN sum[Len(s)]

\* C22 as stated: confidence is 0.8 when the reply has more than 100
\* characters and 0.6 otherwise.
C22_ConfidenceByCharacters ==
    fn = "analyze_long_reply" =>
        out.confidence = (IF CharLength(arg.reply) > 100 THEN 8 ELSE 6)

\* C22: confidence is 0.8 when the UTF-8 encoding of the reply has more
\* than 100 bytes and 0.6 when it has 100 bytes or fewer.
C22_ConfidenceByBytes ==
    fn = "analyze_long_reply" =>
        /\ out.confidence \in {6, 8}
        /\ out.confidence = 8 <=> Utf8Length(arg.reply) >= 101

\* C22 witness: a reply of exactly 100 characters in 100 bytes gets 0.6.
C22_Witness ==
    /\ fn = "analyze_long_reply"
    /\ CharLength(arg.reply) = 100 /\ Utf8Length(arg.reply) = 100
    /\ out.confidence = 6

\* The error the chat request ends with, "none" when it succeeds.
ChatFailure(resp) ==
    CASE ~resp.sent -> "send"
      [] resp.sent /\ resp.status \notin 200..299 -> "status"
      [] resp.sent /\ resp.status \in 200..299 /\ ~resp.body.typed -> "json"
      [] OTHER -> "none"

\* C23: process_medical_query fails exactly when the chat call fails, with
\* the error of the chat call and no text of its own; when the chat call
\* succeeds it returns a result whose response is the reply.
C23_FailsIffChatFails ==
    fn = "process_medical_query" =>
        /\ ~out.ok <=> ChatFailure(arg.resp) # "none"
        /\ ~out.ok => (out.err = ChatFailure(arg.resp) /\ out.value.response = <<>>)
        /\ out.ok => out.value.response = arg.resp.body.content

\* C23 witness: a chat request answered with status 500 makes the call fail
\* with that error.
C23_Witness ==
    /\ fn = "process_medical_query"
    /\ arg.resp.sent /\ arg.resp.status = 500
    /\ ~out.ok /\ out.err = "status"

\* Await points at which a task holds the guard of medical_ai in the middle
\* of an initialize or of a query's chat call.
InitOrChatInProgress(t) ==
    pc[t] \in {"se_sleep", "se_probe", "ext_probe", "list", "pull", "chat"}

\* C25: stop_ai_service takes effect (clears the slot and terminates the
\* child) only in a step taken while no initialize and no chat call is in
\* progress; until then the slot and its child are left as they are.
C25_StopWaitsForInFlightCalls ==
    [][\A t \in Tasks :
          Acquires(t, "stop") => \A u \in Tasks : ~InitOrChatInProgress(u)]_vars

\* C25 witness: a stop is pending while a chat call is in progress against
\* a manager whose child is alive.
C25_Witness ==
    \E t, u \in Tasks :
        /\ cmd[t] = "stop" /\ pc[t] = "lock"
        /\ pc[u] = "chat"
        /\ medical_ai.process # 0 /\ Alive(medical_ai.process)

\* C28: without a service in the slot, or when the chat call fails, the
\* response has emergency_detected = false, no emergency action and
\* severity "low" whatever the query, keyword or not; its confidence is 0.5
\* after a failed call and 0.3 without a service.
C28_FallbackNeverFlagsEmergency ==
    fn = "submit_medical_query" =>
        /\ ~arg.initialized =>
              /\ ~out.emergency_detected /\ ~out.emergency_action
              /\ out.guidance /\ out.severity = "low"
              /\ out.confidence = 3
        /\ (arg.initialized /\ ChatFailure(arg.resp) # "none") =>
              /\ ~out.emergency_detected /\ ~out.emergency_action
              /\ out.guidance /\ out.severity = "low"
              /\ out.confidence = 5

\* C28 witness: a query naming an emergency keyword whose chat call fails
\* is answered without the emergency flag, at confidence 0.5.
C28_Witness ==
    /\ fn = "submit_medical_query"
    /\ HasEmergencyKeyword(arg.query.query)
    /\ arg.initialized /\ ChatFailure(arg.resp) # "none"
    /\ ~out.emergency_detected /\ out.confidence = 5


\* ---- C26
\* The lock a waiting command is waiting for, by its holder (0: none).
Blocker(t) ==
    IF t = 0 THEN 0
    ELSE CASE pc[t] = "lock" -> slotOwner
           [] pc[t] = "conv_wait" -> convOwner
           [] pc[t] = "sess_wait" -> sessOwner
           [] OTHER -> 0

\* The command of task t can take its next step now.
CanStep(t) == t # 0 /\ ENABLED AppStep(t)

\* The positions of a command between acquiring a lock and releasing it.
HoldsSlotAt == {"chat", "probe", "init_net", "conv_wait", "conv_held"}

\* C26: no interleaving of the seven commands deadlocks.  A command that
\* waits for the lock of medical_ai holds neither the lock of conversations
\* nor that of sessions; a lock is owned only by a command between its
\* acquisition and its release, never by one that has returned; and every
\* command under way can step, or waits for a holder that can step, or
\* waits for a holder that itself waits for a holder that can step.
C26_NoDeadlock ==
    /\ \A t \in Tasks : pc[t] = "lock" => convOwner # t /\ sessOwner # t
    /\ slotOwner # 0 => pc[slotOwner] \in HoldsSlotAt
    /\ convOwner # 0 => pc[convOwner] = "conv_held"
    /\ sessOwner # 0 => pc[sessOwner] = "sess_held"
    /\ \A t \in Tasks :
          pc[t] # "idle" =>
             \/ CanStep(t)
             \/ CanStep(Blocker(t))
             \/ CanStep(Blocker(Blocker(t)))

\* A query that found no service waits for the lock of conversations with
\* the guard of medical_ai still in hand, while another command holds
\* conversations.
C26_Witness ==
    \E t, u \in Tasks :
        /\ t # u
        /\ cmd[t] = "query" /\ pc[t] = "conv_wait" /\ slotOwner = t
        /\ convOwner = u /\ pc[u] = "conv_held"

\* ---- C27
\* The step in which the query of task t returns.
QueryReturns(t) == cmd[t] = "query" /\ pc[t] # "ret" /\ pc'[t] = "ret"

\* The step in which the history request of task t returns.
HistoryReturns(t) == cmd[t] = "history" /\ pc[t] # "ret" /\ pc'[t] = "ret"

\* The positions in the log of the records of a session.
SessionIndices(convs, sid) == {i \in 1..Len(convs) : convs[i].session_id = sid}

\* h lists the records of session sid of the log, in the order of the log.
IsSessionHistory(h, convs, sid) ==
    LET idx == SessionIndices(convs, sid) IN
    /\ Len(h) = Cardinality(idx)
    /\ \A i \in idx : h[Cardinality({j \in idx : j <= i})] = convs[i]

\* C27: the step in which a query returns appends to the log exactly one
\* record, the response returned, which carries the session of the request
\* and one of the confidences of the three cases; no other step changes
\* the log; and a history request returns exactly the records of its
\* session in the order of the log.
C27_OneRecordPerQuery ==
    [][ /\ \A t \in Tasks :
             QueryReturns(t) =>
                /\ conversations' = Append(conversations, res'[t])
                /\ res'[t].session_id = req[t].session_id
                /\ res'[t].confidence \in {3, 5, 6, 8}
        /\ (\A t \in Tasks : ~QueryReturns(t)) => conversations' = conversations
        /\ \A t \in Tasks :
             HistoryReturns(t) =>
                IsSessionHistory(res'[t], conversations', req[t].session_id)
      ]_vars

\* A history request has returned one record of a log of two.
C27_Witness ==
    \E t \in Tasks :
        /\ cmd[t] = "history" /\ pc[t] = "ret"
        /\ Len(conversations) = 2
        /\ Len(res[t]) = 1
        /\ res[t][1].session_id = req[t].session_id

====
